---- MODULE Spec2Model ----
(***************************************************************************)
(* A model of simple_shell (src/shell.c): the read / parse / execute loop  *)
(* of main, the tokenizer over the reused line buffer, the built-in        *)
(* dispatch and the fork / execvp / waitpid executor.                      *)
(*                                                                         *)
(* Processes live in a small process table.  The shell is process ShellPid;*)
(* fork() copies the caller's memory (line buffer, argument array, stdio   *)
(* buffer) into a free slot.  Characters are one-character strings, the    *)
(* NUL byte is the empty string, C strings are read from a buffer up to    *)
(* the first NUL, pointers into line_buffer are 1-based indices and the    *)
(* NULL pointer is 0.                                                      *)
(***************************************************************************)
EXTENDS Integers, Sequences, FiniteSets, TLC

VARIABLES
    pc,           \* pc[p]: where process p stands in the code
    ppid,         \* ppid[p]: parent of p (0: none / outside the model)
    wstatus,      \* wstatus[p]: termination status of p
    line_buffer,  \* line_buffer[p]: main's char line_buffer[MAX_LINE_LENGTH]
    args,         \* args[p]: main's char *args[MAX_ARGS]
    pid,          \* pid[p]: execute_command's local pid (fork's result)
    outbuf,       \* outbuf[p]: stdout's user-space buffer, not yet written
    cmd,          \* cmd[p]: the argument list p handed to execvp
    image,        \* image[p]: the program p runs: "shell", "program", "none"
    stdin,        \* the shared input stream: pending characters and its end
    term,         \* what reached the terminal since the last line was read
    nlines,       \* lines the environment has typed so far
    nprompts,     \* prompts written and flushed so far
    nreads,       \* calls of fgets so far
    curline,      \* the line the last fgets delivered, newline stripped
    oob,          \* a store outside args[0..MAX_ARGS-1] has happened
    iter,         \* what happened since the last call of fgets returned:
                  \*   rd: what fgets returned, argc: parse_command_line's
                  \*   result, forkcalls / forks: calls of fork and those that
                  \*   succeeded, loadfail: failed execvp calls, status: what
                  \*   each returned waitpid stored into status
    sigchld,      \* inherited disposition: SIGCHLD is ignored
    bufmode       \* stdout is "line" buffered (terminal) or "full" (pipe/file)

vars == <<pc, ppid, wstatus, line_buffer, args, pid, outbuf, cmd, image, stdin,
          term, nlines, nprompts, nreads, curline, oob, iter, sigchld, bufmode>>

-----------------------------------------------------------------------------
(* Program constants *)

MAX_ARGS == 10
MAX_LINE_LENGTH == 256
EXIT_FAILURE == 1
NULLP == 0
ShellPid == 1

(* Bounds of the model *)

MaxLines == 3
MaxProcs == 3
MaxWords == 11
MaxShort == 4

Pids == 1..MaxProcs

-----------------------------------------------------------------------------
(* Characters and strings *)

NUL == ""
SP == " "
NL == "\n"

W_exit == <<"e", "x", "i", "t">>
W_help == <<"h", "e", "l", "p">>
W_Exit == <<"E", "x", "i", "t">>
W_HELP == <<"H", "E", "L", "P">>
W_exits == <<"e", "x", "i", "t", "s">>
W_ls == <<"l", "s">>
W_l == <<"-", "l">>
W_x == <<"x">>

Letters == <<"a", "b", "c", "d", "e", "f", "g", "h", "i", "j", "k", "l">>

Word(i) == IF i % 2 = 0 THEN <<Letters[i], Letters[i]>> ELSE <<Letters[i]>>

RECURSIVE Join(_, _)
Join(ws, sep) ==
    IF ws = <<>> THEN <<>>
    ELSE IF Len(ws) = 1 THEN ws[1]
    ELSE ws[1] \o sep \o Join(Tail(ws), sep)

NWords(n) == [i \in 1..n |-> Word(i)]

Fill(n) == [i \in 1..n |-> "a"]

(* Messages of the program *)

PROMPT == "simple_shell> "
EOFMSG == "\nExiting shell...\n"
FAREWELL == "Exiting simple_shell.\n"
FGETS_ERR == "fgets error"
FORK_ERR == "fork error"
EXECVP_ERR == "execvp error"
WAITPID_ERR == "waitpid error"

HelpText ==
    << "--- Simple Shell Help ---\n",
       "Available built-in commands:\n",
       "  help   : Display this help message.\n",
       "  exit   : Terminate the shell.\n",
       "\n",
       "Other commands are executed via the system's PATH.\n",
       "Examples:\n",
       "  ls -l\n",
       "  echo Hello World\n",
       "-------------------------\n" >>

EndsInNewline(s) == s # PROMPT

-----------------------------------------------------------------------------
(* stdio output: printf into the buffer, fflush, perror on stderr *)

Printf(io, s) ==
    IF bufmode = "line" /\ EndsInNewline(s)
    THEN [buf |-> <<>>, term |-> io.term \o io.buf \o <<s>>]
    ELSE [buf |-> io.buf \o <<s>>, term |-> io.term]

\* faulty variant: nothing is written out
FflushNothing(io) == io

Fflush(io) == [buf |-> <<>>, term |-> io.term \o io.buf]

Perror(io, m) == [buf |-> io.buf, term |-> io.term \o <<m>>]

RECURSIVE PrintAll(_, _)
PrintAll(io, ss) ==
    IF ss = <<>> THEN io ELSE PrintAll(Printf(io, Head(ss)), Tail(ss))

display_help(io) == PrintAll(io, HelpText)

-----------------------------------------------------------------------------
(* C strings in a buffer *)

\* first index i >= from with (buf[i] \in S) = want, Len(buf)+1 if none
Scan(buf, from, S, want) ==
    LET hit(i) == i > Len(buf) \/ (buf[i] \in S) = want
    IN  IF from > Len(buf) THEN from
        ELSE CHOOSE i \in from..(Len(buf) + 1) :
                 hit(i) /\ \A j \in from..(i - 1) : ~hit(j)

CStr(buf, p) == SubSeq(buf, p, Scan(buf, p, {NUL}, TRUE) - 1)

\* faulty variant: only the first Len(b) characters are compared (as with strncmp)
StrEqPrefix(a, b) == Len(a) >= Len(b) /\ SubSeq(a, 1, Len(b)) = b

\* strcmp(a, b) == 0
StrEq(a, b) == a = b

\* fgets(buf, size, stream) on a stream that has data or has ended
Fgets(buf, size, s) ==
    LET lim == IF Len(s.data) < size - 1 THEN Len(s.data) ELSE size - 1
        nlp == Scan(s.data, 1, {NL}, TRUE)
        n   == IF nlp <= lim THEN nlp ELSE lim
    IN  IF n = 0
        THEN [ret |-> s.end, buf |-> buf, stream |-> s, taken |-> <<>>]
        ELSE [ret |-> "ok",
              taken |-> SubSeq(s.data, 1, n),
              buf |-> [i \in 1..Len(buf) |->
                         IF i <= n THEN s.data[i]
                         ELSE IF i = n + 1 THEN NUL ELSE buf[i]],
              stream |-> [data |-> SubSeq(s.data, n + 1, Len(s.data)),
                          end |-> s.end]]

\* line_buffer[strcspn(line_buffer, "\n")] = 0
StripNewline(buf) ==
    LET k == Scan(buf, 1, {NL, NUL}, TRUE)
    IN  IF k \in 1..Len(buf) THEN [buf EXCEPT ![k] = NUL] ELSE buf

\* faulty variant: a tokenizer that does not skip delimiters before a token, so
\* every space ends a (possibly empty) token
StrtokNaive(buf, save) ==
    IF save > Len(buf) \/ buf[save] = NUL
    THEN [tok |-> NULLP, buf |-> buf, save |-> save]
    ELSE LET stop == Scan(buf, save, {SP, NUL}, TRUE)
         IN  IF stop > Len(buf) \/ buf[stop] = NUL
             THEN [tok |-> save, buf |-> buf, save |-> stop]
             ELSE [tok |-> save, buf |-> [buf EXCEPT ![stop] = NUL],
                   save |-> stop + 1]

\* faulty variant: the delimiter that ends a token is not overwritten, so the
\* token runs on to the end of the line
StrtokNoTerminate(buf, save) ==
    LET start == Scan(buf, save, {SP}, FALSE)
    IN  IF start > Len(buf) \/ buf[start] = NUL
        THEN [tok |-> NULLP, buf |-> buf, save |-> start]
        ELSE LET stop == Scan(buf, start, {SP, NUL}, TRUE)
             IN  IF stop > Len(buf) \/ buf[stop] = NUL
                 THEN [tok |-> start, buf |-> buf, save |-> stop]
                 ELSE [tok |-> start, buf |-> buf, save |-> stop + 1]

\* strtok with delimiter " ", continuing at position save
Strtok(buf, save) ==
    LET start == Scan(buf, save, {SP}, FALSE)
    IN  IF start > Len(buf) \/ buf[start] = NUL
        THEN [tok |-> NULLP, buf |-> buf, save |-> start]
        ELSE LET stop == Scan(buf, start, {SP, NUL}, TRUE)
             IN  IF stop > Len(buf) \/ buf[stop] = NUL
                 THEN [tok |-> start, buf |-> buf, save |-> stop]
                 ELSE [tok |-> start, buf |-> [buf EXCEPT ![stop] = NUL],
                       save |-> stop + 1]

-----------------------------------------------------------------------------
(* parse_command_line *)

\* faulty variant: the loop has no bound on the number of tokens
LoopCondNoBound(token, arg_count) == token # NULLP

\* faulty variant: the loop admits one token more than the array can terminate
LoopCondLong(token, arg_count) == token # NULLP /\ arg_count < MAX_ARGS

\* faulty variant: the loop stops one token early
LoopCondShort(token, arg_count) == token # NULLP /\ arg_count < MAX_ARGS - 2

\* the while condition of parse_command_line
LoopCond(token, arg_count) == token # NULLP /\ arg_count < MAX_ARGS - 1

\* faulty variant: the terminating NULL is never stored
StoreNoNull(a, i, v) ==
    IF i \in DOMAIN a /\ v # NULLP THEN [a EXCEPT ![i] = v] ELSE a

\* args[i] = v; a store outside the array is recorded, not performed
Store(a, i, v) == IF i \in DOMAIN a THEN [a EXCEPT ![i] = v] ELSE a

RECURSIVE ParseLoop(_, _, _, _, _, _)
ParseLoop(buf, a, arg_count, token, save, ob) ==
    IF LoopCond(token, arg_count)
    THEN LET r == Strtok(buf, save)
         IN  ParseLoop(r.buf, Store(a, arg_count, token), arg_count + 1,
                       r.tok, r.save, ob \/ arg_count \notin DOMAIN a)
    ELSE [args |-> Store(a, arg_count, NULLP), buf |-> buf,
          count |-> arg_count, oob |-> ob \/ arg_count \notin DOMAIN a]

parse_command_line(buf, a) ==
    LET r == Strtok(buf, 1)
    IN  ParseLoop(r.buf, a, 0, r.tok, r.save, FALSE)

\* the argument list execvp reads: the strings args[0], args[1], ... up to
\* the first NULL pointer
RECURSIVE ArgvFrom(_, _, _)
ArgvFrom(buf, a, i) ==
    IF i \notin DOMAIN a THEN << <<"<overrun>">> >>
    ELSE IF a[i] = NULLP THEN <<>>
    ELSE << CStr(buf, a[i]) >> \o ArgvFrom(buf, a, i + 1)

Argv(buf, a) == ArgvFrom(buf, a, 0)

-----------------------------------------------------------------------------
(* execute_command: the decisions *)

\* faulty variant: exit is recognised only without arguments
DispatchExitNoArgs(buf, a) ==
    IF a[0] = NULLP THEN "empty"
    ELSE IF CStr(buf, a[0]) = W_exit /\ a[1] = NULLP THEN "exit"
    ELSE IF CStr(buf, a[0]) = W_help THEN "help"
    ELSE "external"

\* faulty variant: help is recognised only without arguments
DispatchHelpNoArgs(buf, a) ==
    IF a[0] = NULLP THEN "empty"
    ELSE IF CStr(buf, a[0]) = W_exit THEN "exit"
    ELSE IF CStr(buf, a[0]) = W_help /\ a[1] = NULLP THEN "help"
    ELSE "external"

\* the empty check and the built-in comparisons on args[0]
Dispatch(buf, a) ==
    IF a[0] = NULLP THEN "empty"
    ELSE IF StrEq(CStr(buf, a[0]), W_exit) THEN "exit"
    ELSE IF StrEq(CStr(buf, a[0]), W_help) THEN "help"
    ELSE "external"

\* faulty variant: the failure of fork is not tested
ForkBranchNoErr(ret) == IF ret = 0 THEN "execvp" ELSE "waitpid"

\* where a process continues after fork() returned ret
ForkBranch(ret) ==
    IF ret = -1 THEN "prompt"
    ELSE IF ret = 0 THEN "execvp"
    ELSE "waitpid"

\* faulty variant: the child tests execvp's result against the wrong value
ExecvpReturnZero(ret) == IF ret = 0 THEN "exit_failure" ELSE "prompt"

\* where the child continues after execvp returned ret
ExecvpReturn(ret) == IF ret = -1 THEN "exit_failure" ELSE "prompt"

\* faulty variant: the child reports nothing
ExecvpDiagSilent(io) == io

\* the child's report of a failed execvp
ExecvpDiag(io) == Perror(io, EXECVP_ERR)

\* faulty variant: waitpid does not block (as with WNOHANG)
WaitpidNoHang(p, c) ==
    IF c \notin Pids \/ pc[c] = "unused" \/ ppid[c] # p THEN "echild"
    ELSE IF pc[c] = "zombie" THEN "reaped"
    ELSE "running"

\* waitpid(c, &status, 0) called by p
Waitpid(p, c) ==
    IF c \notin Pids \/ pc[c] = "unused" \/ ppid[c] # p THEN "echild"
    ELSE IF pc[c] = "zombie" THEN "reaped"
    ELSE "block"

\* faulty variant: a read error is reported as success
ReadRetErrOk(r) == IF r = "eof" THEN -1 ELSE 0

\* faulty variant: end of input is reported as success
ReadRetEofOk(r) == IF r = "err" THEN -1 ELSE 0

\* read_command_line's return value, and main's test of it
ReadRet(r) == IF r = "ok" THEN 0 ELSE -1

MainBreaks(rc) == rc = -1

\* faulty variant: main reports a failure when the loop ends
MainReturnFailure == EXIT_FAILURE

\* main's return value
MainReturnCode == 0

\* faulty variant: the prompt is left in the buffer
PromptNoFlush(io) == Printf(io, PROMPT)

\* read_command_line's printf of the prompt and fflush
PromptIO(io) == Fflush(Printf(io, PROMPT))

\* faulty variant: a failed waitpid is not reported
WaitpidDiagNever(io, ret) == io

\* execute_command's report when waitpid returned ret
WaitpidDiag(io, ret) == IF ret = -1 THEN Perror(io, WAITPID_ERR) ELSE io

-----------------------------------------------------------------------------
(* Process table *)

BlankBuf == [i \in 1..MAX_LINE_LENGTH |-> NUL]
BlankArgs == [i \in 0..(MAX_ARGS - 1) |-> NULLP]
NoStatus == [how |-> "none", code |-> 0]
NewIter(rd) == [rd |-> rd, argc |-> -1, forkcalls |-> 0, forks |-> 0,
                loadfail |-> 0, status |-> <<>>]
ExitStatus(c) == [how |-> "exit", code |-> c]
Signalled(s) == [how |-> "signal", code |-> s]

ProgramStatuses == {ExitStatus(0), ExitStatus(EXIT_FAILURE), Signalled(9)}

FreeSlots == {q \in Pids : pc[q] = "unused"}

MinOf(S) == CHOOSE x \in S : \A y \in S : x <= y

\* Process p terminates with status st after its stdio state became io (exit
\* flushes stdout).  The shell's parent is outside the model; a child
\* becomes a zombie, or vanishes at once when SIGCHLD is ignored.
Exit(p, st, io, argv) ==
    LET to == IF p = ShellPid THEN "exited"
              ELSE IF sigchld THEN "unused" ELSE "zombie"
    IN  /\ pc' = [pc EXCEPT ![p] = to]
        /\ wstatus' = [wstatus EXCEPT ![p] = IF to = "unused" THEN NoStatus ELSE st]
        /\ ppid' = [ppid EXCEPT ![p] = IF to = "unused" THEN 0 ELSE @]
        /\ cmd' = [cmd EXCEPT ![p] = IF to = "unused" THEN <<>> ELSE argv]
        /\ image' = [image EXCEPT ![p] = IF to = "unused" THEN "none" ELSE @]
        /\ line_buffer' = [line_buffer EXCEPT ![p] = BlankBuf]
        /\ args' = [args EXCEPT ![p] = BlankArgs]
        /\ pid' = [pid EXCEPT ![p] = 0]
        /\ outbuf' = [outbuf EXCEPT ![p] = <<>>]
        /\ term' = Fflush(io).term

-----------------------------------------------------------------------------
(* The environment: what is typed on standard input *)

InputLines ==
    { <<>>,
      <<SP, SP>>,
      W_exit,
      W_exit \o <<SP>> \o W_x,
      W_help,
      W_help \o <<SP>> \o W_x,
      W_Exit,
      W_exits,
      W_HELP,
      <<SP>> \o W_ls \o <<SP, SP>> \o W_l \o <<SP>>,
      Join(NWords(10), <<SP>>),
      <<SP>> \o Join(NWords(11), <<SP, SP>>),
      Fill(MAX_LINE_LENGTH - 1) \o W_exit }

Supplies ==
    {[data |-> l \o <<NL>>, end |-> "more"] :
        l \in IF nlines < MaxLines THEN InputLines ELSE {}}
    \cup {[data |-> l, end |-> "eof"] :
        l \in IF nlines < MaxLines THEN {W_ls} ELSE {}}
    \cup {[data |-> <<>>, end |-> "eof"], [data |-> <<>>, end |-> "err"]}

Source ==
    IF stdin.data # <<>> \/ stdin.end # "more" THEN {stdin} ELSE Supplies

-----------------------------------------------------------------------------
(* Actions *)

\* read_command_line, first part: printf of the prompt and fflush
ShowPrompt(p) ==
    /\ pc[p] = "prompt"
    /\ LET io == PromptIO([buf |-> outbuf[p], term |-> term])
       IN  /\ outbuf' = [outbuf EXCEPT ![p] = io.buf]
           /\ term' = io.term
    /\ pc' = [pc EXCEPT ![p] = "fgets"]
    /\ nprompts' = nprompts + 1
    /\ UNCHANGED <<ppid, wstatus, line_buffer, args, pid, cmd, image, stdin,
                   nlines, nreads, curline, oob, iter, sigchld, bufmode>>

\* read_command_line, second part (fgets, the EOF / error report, the
\* newline strip) and main's test of the result: break and return 0
ReadLine(p) ==
    /\ pc[p] = "fgets"
    /\ \E s \in Source :
         LET r   == Fgets(line_buffer[p], MAX_LINE_LENGTH, s)
             io0 == [buf |-> outbuf[p], term |-> <<>>]
         IN  /\ stdin' = r.stream
             /\ nlines' = IF s # stdin /\ s.data # <<>> THEN nlines + 1 ELSE nlines
             /\ nreads' = nreads + 1
             /\ iter' = NewIter(r.ret)
             /\ IF MainBreaks(ReadRet(r.ret))
                THEN /\ Exit(p, ExitStatus(MainReturnCode),
                             IF r.ret = "eof" THEN Printf(io0, EOFMSG)
                             ELSE Perror(io0, FGETS_ERR), cmd[p])
                     /\ UNCHANGED curline
                ELSE /\ line_buffer' = [line_buffer EXCEPT ![p] = StripNewline(r.buf)]
                     /\ curline' = SelectSeq(r.taken, LAMBDA ch : ch # NL)
                     /\ pc' = [pc EXCEPT ![p] = "parse"]
                     /\ term' = <<>>
                     /\ UNCHANGED <<ppid, wstatus, args, pid, outbuf, cmd, image>>
    /\ UNCHANGED <<nprompts, oob, sigchld, bufmode>>

\* main's call of parse_command_line
Parse(p) ==
    /\ pc[p] = "parse"
    /\ LET r == parse_command_line(line_buffer[p], args[p])
       IN  /\ line_buffer' = [line_buffer EXCEPT ![p] = r.buf]
           /\ args' = [args EXCEPT ![p] = r.args]
           /\ oob' = (oob \/ r.oob)
           /\ iter' = [iter EXCEPT !.argc = r.count]
    /\ pc' = [pc EXCEPT ![p] = "execute"]
    /\ UNCHANGED <<ppid, wstatus, pid, outbuf, cmd, image, stdin, term, nlines,
                   nprompts, nreads, curline, sigchld, bufmode>>

\* execute_command on an empty argument vector
ExecEmpty(p) ==
    /\ pc[p] = "execute"
    /\ Dispatch(line_buffer[p], args[p]) = "empty"
    /\ pc' = [pc EXCEPT ![p] = "prompt"]
    /\ UNCHANGED <<ppid, wstatus, line_buffer, args, pid, outbuf, cmd, image,
                   stdin, term, nlines, nprompts, nreads, curline, oob, iter,
                   sigchld, bufmode>>

\* the exit built-in
BuiltinExit(p) ==
    /\ pc[p] = "execute"
    /\ Dispatch(line_buffer[p], args[p]) = "exit"
    /\ Exit(p, ExitStatus(0),
            Printf([buf |-> outbuf[p], term |-> term], FAREWELL), cmd[p])
    /\ UNCHANGED <<stdin, nlines, nprompts, nreads, curline, oob, iter, sigchld,
                   bufmode>>

\* the help built-in
BuiltinHelp(p) ==
    /\ pc[p] = "execute"
    /\ Dispatch(line_buffer[p], args[p]) = "help"
    /\ LET io == display_help([buf |-> outbuf[p], term |-> term])
       IN  /\ outbuf' = [outbuf EXCEPT ![p] = io.buf]
           /\ term' = io.term
    /\ pc' = [pc EXCEPT ![p] = "prompt"]
    /\ UNCHANGED <<ppid, wstatus, line_buffer, args, pid, cmd, image, stdin,
                   nlines, nprompts, nreads, curline, oob, iter, sigchld, bufmode>>

\* an external command: fork fails
ForkFail(p) ==
    /\ pc[p] = "execute"
    /\ Dispatch(line_buffer[p], args[p]) = "external"
    /\ pc' = [pc EXCEPT ![p] = ForkBranch(-1)]
    /\ term' = Perror([buf |-> outbuf[p], term |-> term], FORK_ERR).term
    /\ iter' = [iter EXCEPT !.forkcalls = @ + 1]
    /\ UNCHANGED <<ppid, wstatus, line_buffer, args, pid, outbuf, cmd, image,
                   stdin, nlines, nprompts, nreads, curline, oob, sigchld, bufmode>>

\* an external command: fork succeeds; the child c is a copy of p
ForkOk(p) ==
    /\ pc[p] = "execute"
    /\ Dispatch(line_buffer[p], args[p]) = "external"
    /\ FreeSlots # {}
    /\ LET c == MinOf(FreeSlots)
       IN  /\ pc' = [pc EXCEPT ![p] = ForkBranch(c), ![c] = ForkBranch(0)]
           /\ pid' = [pid EXCEPT ![p] = c, ![c] = 0]
           /\ ppid' = [ppid EXCEPT ![c] = p]
           /\ line_buffer' = [line_buffer EXCEPT ![c] = line_buffer[p]]
           /\ args' = [args EXCEPT ![c] = args[p]]
           /\ outbuf' = [outbuf EXCEPT ![c] = outbuf[p]]
           /\ image' = [image EXCEPT ![c] = image[p]]
    /\ iter' = [iter EXCEPT !.forkcalls = @ + 1, !.forks = @ + 1]
    /\ UNCHANGED <<wstatus, cmd, stdin, term, nlines, nprompts, nreads,
                   curline, oob, sigchld, bufmode>>

Execute(p) ==
    ExecEmpty(p) \/ BuiltinExit(p) \/ BuiltinHelp(p) \/ ForkFail(p) \/ ForkOk(p)

\* the child: execvp loads the program
ExecvpOk(c) ==
    /\ pc[c] = "execvp"
    /\ pc' = [pc EXCEPT ![c] = "running"]
    /\ cmd' = [cmd EXCEPT ![c] = Argv(line_buffer[c], args[c])]
    /\ line_buffer' = [line_buffer EXCEPT ![c] = BlankBuf]
    /\ args' = [args EXCEPT ![c] = BlankArgs]
    /\ outbuf' = [outbuf EXCEPT ![c] = <<>>]
    /\ pid' = [pid EXCEPT ![c] = 0]
    /\ image' = [image EXCEPT ![c] = "program"]
    /\ UNCHANGED <<ppid, wstatus, stdin, term, nlines, nprompts, nreads,
                   curline, oob, iter, sigchld, bufmode>>

\* the child: execvp fails and returns -1
ExecvpFail(c) ==
    /\ pc[c] = "execvp"
    /\ IF ExecvpReturn(-1) = "exit_failure"
       THEN Exit(c, ExitStatus(EXIT_FAILURE),
                 ExecvpDiag([buf |-> outbuf[c], term |-> term]),
                 Argv(line_buffer[c], args[c]))
       ELSE /\ pc' = [pc EXCEPT ![c] = ExecvpReturn(-1)]
            /\ cmd' = [cmd EXCEPT ![c] = Argv(line_buffer[c], args[c])]
            /\ UNCHANGED <<ppid, wstatus, line_buffer, args, pid, outbuf,
                           image, term>>
    /\ iter' = [iter EXCEPT !.loadfail = @ + 1]
    /\ UNCHANGED <<stdin, nlines, nprompts, nreads, curline, oob, sigchld, bufmode>>

\* the launched program terminates, by exit or by a signal
ProgramExit(c) ==
    /\ pc[c] = "running"
    /\ \E st \in ProgramStatuses :
         Exit(c, st, [buf |-> <<>>, term |-> term], cmd[c])
    /\ UNCHANGED <<stdin, nlines, nprompts, nreads, curline, oob, iter, sigchld,
                   bufmode>>

\* the parent: waitpid returns, execute_command returns to main's loop
Wait(p) ==
    /\ pc[p] = "waitpid"
    /\ LET c == pid[p]
           r == Waitpid(p, c)
       IN  /\ r # "block"
           /\ pc' = [q \in Pids |->
                       IF q = p THEN "prompt"
                       ELSE IF q = c /\ r = "reaped" THEN "unused" ELSE pc[q]]
           /\ wstatus' = [q \in Pids |->
                       IF q = c /\ r = "reaped" THEN NoStatus ELSE wstatus[q]]
           /\ ppid' = [q \in Pids |->
                       IF q = c /\ r = "reaped" THEN 0 ELSE ppid[q]]
           /\ cmd' = [q \in Pids |->
                       IF q = c /\ r = "reaped" THEN <<>> ELSE cmd[q]]
           /\ image' = [q \in Pids |->
                       IF q = c /\ r = "reaped" THEN "none" ELSE image[q]]
           /\ iter' = [iter EXCEPT !.status =
                       Append(@, IF r = "reaped" THEN wstatus[c] ELSE NoStatus)]
           /\ term' = WaitpidDiag([buf |-> outbuf[p], term |-> term],
                                   IF r = "reaped" THEN c ELSE -1).term
    /\ pid' = [pid EXCEPT ![p] = 0]
    /\ UNCHANGED <<line_buffer, args, outbuf, stdin, nlines, nprompts, nreads,
                   curline, oob, sigchld, bufmode>>

-----------------------------------------------------------------------------
(* Specification *)

\* main's locals are uninitialised: two representative contents
JunkBuf == [i \in 1..MAX_LINE_LENGTH |-> "z"]
JunkArgs == [i \in 0..(MAX_ARGS - 1) |-> 1]

Init ==
    /\ pc = [q \in Pids |-> IF q = ShellPid THEN "prompt" ELSE "unused"]
    /\ ppid = [q \in Pids |-> 0]
    /\ wstatus = [q \in Pids |-> NoStatus]
    /\ \E junk \in BOOLEAN :
         /\ line_buffer = [q \in Pids |->
               IF q = ShellPid /\ junk THEN JunkBuf ELSE BlankBuf]
         /\ args = [q \in Pids |->
               IF q = ShellPid /\ junk THEN JunkArgs ELSE BlankArgs]
    /\ pid = [q \in Pids |-> 0]
    /\ outbuf = [q \in Pids |-> <<>>]
    /\ cmd = [q \in Pids |-> <<>>]
    /\ image = [q \in Pids |-> IF q = ShellPid THEN "shell" ELSE "none"]
    /\ iter = NewIter("none")
    /\ stdin = [data |-> <<>>, end |-> "more"]
    /\ term = <<>>
    /\ nlines = 0
    /\ nprompts = 0
    /\ nreads = 0
    /\ curline = <<>>
    /\ oob = FALSE
    /\ sigchld \in BOOLEAN
    /\ bufmode \in {"line", "full"}

Next ==
    \E p \in Pids :
        \/ ShowPrompt(p)
        \/ ReadLine(p)
        \/ Parse(p)
        \/ Execute(p)
        \/ ExecvpOk(p)
        \/ ExecvpFail(p)
        \/ ProgramExit(p)
        \/ Wait(p)

Spec == Init /\ [][Next]_vars

-----------------------------------------------------------------------------
(* The tokenizer alone: main has read a first line and calls                *)
(* parse_command_line on it.                                               *)

Spaces(n) == [i \in 1..n |-> SP]

TokLines ==
    { Spaces(lead) \o Join(NWords(n), Spaces(sep)) \o Spaces(trail) :
        n \in 0..MaxWords, lead \in 0..1, sep \in 1..2, trail \in 0..1 }
    \cup UNION { [1..n -> {"a", SP}] : n \in 0..MaxShort }

\* the buffer after fgets stored line l and the newline was stripped
BufOf(l, rest) ==
    [i \in 1..MAX_LINE_LENGTH |->
        IF i <= Len(l) THEN l[i] ELSE IF i = Len(l) + 1 THEN NUL ELSE rest[i]]

TokInit ==
    /\ pc = [q \in Pids |-> IF q = ShellPid THEN "parse" ELSE "unused"]
    /\ ppid = [q \in Pids |-> 0]
    /\ wstatus = [q \in Pids |-> NoStatus]
    /\ \E l \in TokLines, junk \in BOOLEAN :
         /\ line_buffer = [q \in Pids |->
               IF q = ShellPid
               THEN BufOf(l, IF junk THEN JunkBuf ELSE BlankBuf)
               ELSE BlankBuf]
         /\ args = [q \in Pids |->
               IF q = ShellPid /\ junk THEN JunkArgs ELSE BlankArgs]
         /\ curline = l
    /\ pid = [q \in Pids |-> 0]
    /\ outbuf = [q \in Pids |-> <<>>]
    /\ cmd = [q \in Pids |-> <<>>]
    /\ image = [q \in Pids |-> IF q = ShellPid THEN "shell" ELSE "none"]
    /\ iter = NewIter("ok")
    /\ stdin = [data |-> <<>>, end |-> "more"]
    /\ term = <<>>
    /\ nlines = 1
    /\ nprompts = 1
    /\ nreads = 1
    /\ oob = FALSE
    /\ sigchld \in BOOLEAN
    /\ bufmode \in {"line", "full"}

TokNext == Parse(ShellPid)

TokSpec == TokInit /\ [][TokNext]_vars

-----------------------------------------------------------------------------
(* Properties *)

Range(f) == {f[i] : i \in DOMAIN f}

\* the children that are outstanding: running, or terminated and not waited for
Children == {q \in Pids \ {ShellPid} : pc[q] # "unused"}

\* C1: whenever the shell is about to print a prompt, or has printed it and
\* waits for input, no child is outstanding; and there is never more than
\* one child.
C1_NoChildAtPrompt ==
    /\ Cardinality(Children) <= 1
    /\ pc[ShellPid] \in {"prompt", "fgets"} => Children = {}

C1_Witness ==
    /\ pc[ShellPid] = "fgets"
    /\ iter.forks = 1
    /\ Len(iter.status) = 1
    /\ Children = {}

\* C2: once a child has failed to load its program, the diagnostic is on the
\* terminal and the shell is alive: it waits, or has returned to the loop
\* with the child collected, where the prompt is the next thing it does;
\* and whatever status a wait of this iteration collected (exit 0, exit 1,
\* killed), the shell is back in the loop.
C2_LoadFailureReported ==
    /\ iter.loadfail > 0 =>
         /\ EXECVP_ERR \in Range(term)
         /\ pc[ShellPid] \in {"waitpid", "prompt", "fgets"}
         /\ pc[ShellPid] \in {"prompt", "fgets"} => Children = {}
    /\ \A i \in DOMAIN iter.status :
         /\ pc[ShellPid] \in {"prompt", "fgets"}
         /\ pc[ShellPid] = "prompt" => ENABLED ShowPrompt(ShellPid)

C2_Witness ==
    /\ iter.loadfail = 1
    /\ iter.status = <<ExitStatus(EXIT_FAILURE)>>
    /\ pc[ShellPid] = "fgets"
    /\ term = <<EXECVP_ERR, PROMPT>>

\* C3: a child never stands anywhere in the shell's loop: it is at its
\* execvp call, runs the loaded program, or has terminated; a child that
\* still has the shell's image (its execvp did not succeed) is at the execvp
\* call or has exited with a non-zero exit code.
C3_FailedChildExits ==
    \A c \in Pids \ {ShellPid} :
        /\ pc[c] \in {"unused", "execvp", "running", "zombie"}
        /\ image[c] = "shell" => pc[c] \in {"execvp", "zombie"}
        /\ (image[c] = "shell" /\ pc[c] = "zombie") =>
              (wstatus[c].how = "exit" /\ wstatus[c].code # 0)

C3_Witness ==
    \E c \in Pids \ {ShellPid} :
        /\ pc[c] = "zombie"
        /\ image[c] = "shell"
        /\ wstatus[c] = ExitStatus(EXIT_FAILURE)
        /\ iter.loadfail = 1

-----------------------------------------------------------------------------
(* Words of a line, defined from the text alone: the maximal substrings    *)
(* without a space, in order.                                              *)

WordStarts(l) == {i \in 1..Len(l) : l[i] # SP /\ (i = 1 \/ l[i - 1] = SP)}

WordAt(l, s) == SubSeq(l, s, Scan(l, s, {SP}, TRUE) - 1)

Words(l) ==
    [k \in 1..Cardinality(WordStarts(l)) |->
        WordAt(l, CHOOSE s \in WordStarts(l) :
                      Cardinality({t \in WordStarts(l) : t < s}) = k - 1)]

\* the string args[i] of the shell points at
Token(i) == CStr(line_buffer[ShellPid], args[ShellPid][i])

\* C4: after parse_command_line on a line of N <= 9 words, the result is N,
\* args[0..N-1] point at the N words in order, and args[N] is NULL.
C4_TokensAreWords ==
    (pc[ShellPid] = "execute" /\ Len(Words(curline)) <= 9) =>
        LET ws == Words(curline)
            n  == Len(ws)
        IN  /\ iter.argc = n
            /\ args[ShellPid][n] = NULLP
            /\ \A i \in 1..n :
                 /\ args[ShellPid][i - 1] # NULLP
                 /\ Token(i - 1) = ws[i]

C4_Witness ==
    /\ pc[ShellPid] = "execute"
    /\ curline = Join(NWords(9), <<SP, SP>>) \o <<SP>>
    /\ iter.argc = 9
    /\ Argv(line_buffer[ShellPid], args[ShellPid]) = NWords(9)

\* C5: a line of more than 9 words leaves exactly its first 9 words in
\* args[0..8] with NULL in args[9]; nothing is printed by the tokenizer, and
\* the command goes on to dispatch: fork is called for it, and a child
\* launched for it gets exactly the 9 kept words.
C5_ExcessWordsDropped ==
    LET ws == Words(curline)
    IN  (iter.rd = "ok" /\ Len(ws) > 9) =>
          /\ pc[ShellPid] = "execute" =>
               /\ iter.argc = 9
               /\ args[ShellPid][9] = NULLP
               /\ Argv(line_buffer[ShellPid], args[ShellPid]) = SubSeq(ws, 1, 9)
               /\ term = <<>>
          /\ (pc[ShellPid] \in {"waitpid", "prompt", "fgets"}
              /\ ws[1] \notin {W_exit, W_help}) => iter.forkcalls = 1
          /\ \A c \in Children : cmd[c] # <<>> => cmd[c] = SubSeq(ws, 1, 9)
          /\ ~oob

C5_Witness ==
    /\ curline = Join(NWords(10), <<SP>>)
    /\ iter.rd = "ok"
    /\ \E c \in Children : pc[c] = "running" /\ cmd[c] = NWords(9)

AllSpaces(l) == \A i \in DOMAIN l : l[i] = SP

\* C6: after an empty or all-space line was read, the tokenizer returns 0
\* and stores NULL in args[0]; the shell only passes through parse and
\* dispatch back to the prompt: it calls no fork, has no child, does not
\* terminate, and nothing but the next prompt reaches the terminal.
C6_EmptyLineNoOp ==
    (iter.rd = "ok" /\ AllSpaces(curline)) =>
        /\ pc[ShellPid] \in {"parse", "execute", "prompt", "fgets"}
        /\ pc[ShellPid] # "parse" => iter.argc = 0
        /\ pc[ShellPid] = "execute" => args[ShellPid][0] = NULLP
        /\ iter.forkcalls = 0
        /\ Children = {}
        /\ outbuf[ShellPid] = <<>>
        /\ term = IF pc[ShellPid] = "fgets" THEN <<PROMPT>> ELSE <<>>

C6_Witness ==
    /\ iter.rd = "ok"
    /\ curline = <<SP, SP>>
    /\ pc[ShellPid] = "fgets"
    /\ term = <<PROMPT>>
    /\ nprompts = 2

\* the line read last has w as its first word
FirstWordIs(w) ==
    iter.rd = "ok" /\ Words(curline) # <<>> /\ Words(curline)[1] = w

\* C7: after a line whose first word is exit was read, the shell parses,
\* dispatches and is gone: it never stands at the prompt, in fgets or in
\* waitpid again, calls no fork, and once terminated its exit code is 0, the
\* farewell is all it printed, and neither a prompt nor a read is possible.
C7_ExitTerminates ==
    FirstWordIs(W_exit) =>
        /\ pc[ShellPid] \in {"parse", "execute", "exited"}
        /\ iter.forkcalls = 0
        /\ Children = {}
        /\ pc[ShellPid] = "exited" =>
             /\ wstatus[ShellPid] = ExitStatus(0)
             /\ term = <<FAREWELL>>
             /\ ~ENABLED (ShowPrompt(ShellPid) \/ ReadLine(ShellPid))

C7_Witness ==
    /\ iter.rd = "ok"
    /\ curline = W_exit \o <<SP>> \o W_x
    /\ pc[ShellPid] = "exited"
    /\ wstatus[ShellPid] = ExitStatus(0)

\* C8: after a line whose first word is help was read, the shell parses,
\* dispatches and returns to the prompt without calling fork; what it has
\* printed by then is exactly the help text, followed by the next prompt.
C8_HelpPrintsFixedText ==
    FirstWordIs(W_help) =>
        /\ pc[ShellPid] \in {"parse", "execute", "prompt", "fgets"}
        /\ iter.forkcalls = 0
        /\ Children = {}
        /\ pc[ShellPid] \in {"parse", "execute"} =>
             term \o outbuf[ShellPid] = <<>>
        /\ pc[ShellPid] = "prompt" => term \o outbuf[ShellPid] = HelpText
        /\ pc[ShellPid] = "fgets" =>
             (term = HelpText \o <<PROMPT>> /\ outbuf[ShellPid] = <<>>)

C8_Witness ==
    /\ iter.rd = "ok"
    /\ curline = W_help \o <<SP>> \o W_x
    /\ pc[ShellPid] = "fgets"
    /\ term = HelpText \o <<PROMPT>>

\* C9: once fgets has reported end of input, the shell has terminated with
\* exit code 0; since that read it printed only the closing message (no
\* prompt), parsed nothing and called no fork, and no step is left to it.
C9_EofExits ==
    iter.rd = "eof" =>
        /\ pc[ShellPid] = "exited"
        /\ wstatus[ShellPid] = ExitStatus(0)
        /\ term = <<EOFMSG>>
        /\ iter.argc = -1
        /\ iter.forkcalls = 0
        /\ Children = {}
        /\ ~ENABLED Next

C9_Witness ==
    /\ iter.rd = "eof"
    /\ pc[ShellPid] = "exited"
    /\ nreads = 3
    /\ curline = W_exits

\* the line read last names an external command
External ==
    /\ Words(curline) # <<>>
    /\ Words(curline)[1] # W_exit
    /\ Words(curline)[1] # W_help

\* execute_command has run (or runs its wait) on the line read last
Dispatched ==
    iter.rd = "ok" /\ pc[ShellPid] \in {"waitpid", "prompt", "fgets", "exited"}

\* C10 as stated: a child is spawned in an iteration if and only if the
\* line names an external command.
C10_SpawnedIffExternal == Dispatched => (iter.forks = 1 <=> External)

\* C10, amended: fork is called (once) in an iteration if and only if the
\* line names an external command; a child exists only if that call
\* succeeded, so built-ins and empty lines never have one.
C10_ForkCalledIffExternal ==
    /\ iter.forks <= iter.forkcalls
    /\ Cardinality(Children) <= iter.forks
    /\ Dispatched => (iter.forkcalls = 1 <=> External)
    /\ ~Dispatched => iter.forkcalls = 0

C10_Witness ==
    /\ iter.rd = "ok"
    /\ curline = W_exits
    /\ pc[ShellPid] = "waitpid"
    /\ iter.forks = 1
    /\ \E c \in Children : cmd[c] = <<W_exits>>

\* fork was called in this iteration and returned -1
ForkFailed == iter.forkcalls = 1 /\ iter.forks = 0

\* a waitpid of this iteration returned -1
WaitFailed == NoStatus \in Range(iter.status)

\* C11: once fork has failed, the diagnostic is on the terminal and the
\* shell is back in the loop, where the prompt is its next step: no execvp
\* was called, no waitpid returned, and no child exists.
C11_ForkFailureReturns ==
    ForkFailed =>
        /\ pc[ShellPid] \in {"prompt", "fgets"}
        /\ pc[ShellPid] = "prompt" => ENABLED ShowPrompt(ShellPid)
        /\ term = IF pc[ShellPid] = "fgets"
                  THEN <<FORK_ERR, PROMPT>> ELSE <<FORK_ERR>>
        /\ iter.loadfail = 0
        /\ iter.status = <<>>
        /\ Children = {}
        /\ \A q \in Pids : cmd[q] = <<>> /\ image[q] # "program"

C11_Witness ==
    /\ ForkFailed
    /\ curline = W_exits
    /\ pc[ShellPid] = "fgets"
    /\ term = <<FORK_ERR, PROMPT>>

\* C12: once waitpid has failed, the diagnostic is on the terminal and the
\* shell is alive and back in the loop: at the prompt step, which is
\* enabled, or past it, blocked in fgets for the next command.
C12_WaitFailureContinues ==
    WaitFailed =>
        /\ WAITPID_ERR \in Range(term)
        /\ pc[ShellPid] \in {"prompt", "fgets"}
        /\ wstatus[ShellPid] = NoStatus
        /\ pc[ShellPid] = "prompt" => ENABLED ShowPrompt(ShellPid)
        /\ pc[ShellPid] = "fgets" =>
             (term[Len(term)] = PROMPT /\ ENABLED ReadLine(ShellPid))

C12_Witness ==
    /\ WaitFailed
    /\ sigchld
    /\ pc[ShellPid] = "fgets"
    /\ term = <<WAITPID_ERR, PROMPT>>

\* C13 as stated: every command the shell has taken from its input is a
\* line of its own: the reads that delivered a command never outnumber the
\* lines typed, and no part of a line is left behind for a later read.
C13_OneCommandPerLine ==
    /\ nreads - (IF iter.rd \in {"eof", "err"} THEN 1 ELSE 0) <= nlines
    /\ pc[ShellPid] # "fgets" => stdin.data = <<>>

\* the shell is in its loop and the prompt is its next step or already shown
BackInLoop ==
    /\ pc[ShellPid] \in {"prompt", "fgets"}
    /\ pc[ShellPid] = "prompt" => ENABLED ShowPrompt(ShellPid)
    /\ pc[ShellPid] = "fgets" => term[Len(term)] = PROMPT

\* C14 as stated: whatever failed in this iteration (the read, fork, execvp
\* in the child, waitpid), the shell has not terminated.
C14_EveryFailureReturnsToLoop ==
    (iter.rd = "err" \/ ForkFailed \/ iter.loadfail > 0 \/ WaitFailed)
        => pc[ShellPid] # "exited"

\* C14, amended: a failure of fork, of execvp in the child, or of waitpid
\* leaves the shell in its loop (waiting for the child, or at the prompt);
\* a failure of the read is reported, and the shell then terminates with
\* status 0 without prompting again.
C14_FailureHandling ==
    /\ (ForkFailed \/ WaitFailed) => BackInLoop
    /\ iter.loadfail > 0 =>
         /\ EXECVP_ERR \in Range(term)
         /\ pc[ShellPid] = "waitpid" \/ BackInLoop
    /\ iter.rd = "err" =>
         /\ pc[ShellPid] = "exited"
         /\ wstatus[ShellPid] = ExitStatus(0)
         /\ term = <<FGETS_ERR>>
         /\ ~ ENABLED ShowPrompt(ShellPid)

C14_Witness ==
    /\ iter.loadfail = 1
    /\ iter.status = <<NoStatus>>
    /\ pc[ShellPid] = "fgets"
    /\ term = <<EXECVP_ERR, WAITPID_ERR, PROMPT>>

\* C15: a terminated shell has exit status 0 and ended through exit, end of
\* input or a read error; an iteration that called fork (whether fork
\* failed, the child failed or was killed, or waitpid failed) leaves the
\* shell running, without an exit status.
C15_ExitCodeZero ==
    /\ pc[ShellPid] = "exited" =>
         /\ wstatus[ShellPid] = ExitStatus(0)
         /\ iter.rd \in {"eof", "err"} \/ FirstWordIs(W_exit)
    /\ pc[ShellPid] # "exited" => wstatus[ShellPid] = NoStatus
    /\ iter.forkcalls > 0 => pc[ShellPid] # "exited"

C15_Witness ==
    /\ pc[ShellPid] = "exited"
    /\ wstatus[ShellPid] = ExitStatus(0)
    /\ iter.rd = "err"
    /\ nreads = 2

\* C16: the prompts written equal the reads made, plus the one prompt of
\* the read the shell is blocked in; at every read the prompt is the last
\* thing on the terminal, written once since the previous read, and
\* nothing is left in the stdout buffer.
C16_PromptBeforeRead ==
    /\ nprompts = nreads + (IF pc[ShellPid] = "fgets" THEN 1 ELSE 0)
    /\ pc[ShellPid] = "fgets" =>
         /\ outbuf[ShellPid] = <<>>
         /\ term # <<>>
         /\ term[Len(term)] = PROMPT
         /\ Cardinality({i \in 1..Len(term) : term[i] = PROMPT}) = 1

C16_Witness ==
    /\ pc[ShellPid] = "fgets"
    /\ nprompts = 3
    /\ nreads = 2
    /\ bufmode = "full"
    /\ term = HelpText \o <<PROMPT>>

\* C17: after parse_command_line the count is between 0 and 9, args[0] up
\* to args[count-1] are tokens, args[count] is NULL, no store went outside
\* the 10 slots, and a reader of args stops at a NULL inside the array
\* after exactly count strings.
C17_ArgsTerminated ==
    pc[ShellPid] = "execute" =>
        /\ iter.argc \in 0..(MAX_ARGS - 1)
        /\ \A i \in 0..(iter.argc - 1) : args[ShellPid][i] \in 1..MAX_LINE_LENGTH
        /\ args[ShellPid][iter.argc] = NULLP
        /\ ~oob
        /\ DOMAIN args[ShellPid] = 0..(MAX_ARGS - 1)
        /\ Len(Argv(line_buffer[ShellPid], args[ShellPid])) = iter.argc
        /\ <<"<overrun>">> \notin Range(Argv(line_buffer[ShellPid], args[ShellPid]))

C17_Witness ==
    /\ pc[ShellPid] = "execute"
    /\ Len(Words(curline)) = 11
    /\ iter.argc = 9
    /\ args[ShellPid][8] # NULLP
    /\ args[ShellPid][9] = NULLP
    /\ ~oob

\* the first 9 words of line l
Kept(l) ==
    LET ws == Words(l)
    IN  SubSeq(ws, 1, IF Len(ws) < MAX_ARGS - 1 THEN Len(ws) ELSE MAX_ARGS - 1)

\* C18: the argument list handed to the dispatcher, and the one a launched
\* program receives, is determined by the line read in this iteration
\* alone, whatever earlier lines left in the buffer and in args.
C18_NoStaleArguments ==
    /\ pc[ShellPid] = "execute" =>
         Argv(line_buffer[ShellPid], args[ShellPid]) = Kept(curline)
    /\ \A c \in Children : cmd[c] # <<>> => cmd[c] = Kept(curline)

\* a short line read after a line that filled the buffer
C18_Witness ==
    /\ pc[ShellPid] = "execute"
    /\ nreads = 2
    /\ curline = W_exit
    /\ line_buffer[ShellPid][Len(W_exit) + 3] = "a"
    /\ line_buffer[ShellPid][MAX_LINE_LENGTH - 1] = "a"
    /\ Argv(line_buffer[ShellPid], args[ShellPid]) = <<W_exit>>

TokStart(i) == args[ShellPid][i]

TokEnd(i) == IF i < 0 THEN 0 ELSE TokStart(i) + Len(Token(i)) - 1

\* C19: every token is a non-empty piece of the line without a space,
\* bounded on both sides by a space or an end of the line; only spaces lie
\* before the first token and between one token and the next, and, when
\* fewer than 9 tokens were found, after the last one.
C19_TokensMaximal ==
    pc[ShellPid] = "execute" =>
        /\ \A i \in 0..(iter.argc - 1) :
             /\ Token(i) # <<>>
             /\ SP \notin Range(Token(i))
             /\ TokStart(i) > TokEnd(i - 1)
             /\ TokEnd(i) <= Len(curline)
             /\ Token(i) = SubSeq(curline, TokStart(i), TokEnd(i))
             /\ TokEnd(i) = Len(curline) \/ curline[TokEnd(i) + 1] = SP
             /\ \A j \in (TokEnd(i - 1) + 1)..(TokStart(i) - 1) : curline[j] = SP
        /\ iter.argc < MAX_ARGS - 1 =>
             \A j \in (TokEnd(iter.argc - 1) + 1)..Len(curline) : curline[j] = SP

C19_Witness ==
    /\ pc[ShellPid] = "execute"
    /\ curline = <<SP, "a", SP, "a">>
    /\ iter.argc = 2
    /\ TokStart(0) = 2 /\ Token(0) = <<"a">>
    /\ TokStart(1) = 4 /\ Token(1) = <<"a">>

\* C20: nothing is in the shell's stdout buffer when it can call fork, so a
\* child starts with an empty buffer; a child whose execvp failed puts
\* only its own diagnostic on the terminal when it exits, and nothing
\* appears on the terminal twice.
C20_NoDuplicatedOutput ==
    /\ pc[ShellPid] \in {"parse", "execute"} => outbuf[ShellPid] = <<>>
    /\ \A c \in Children : pc[c] = "execvp" => outbuf[c] = <<>>
    /\ (iter.loadfail > 0 /\ pc[ShellPid] = "waitpid") => term = <<EXECVP_ERR>>
    /\ \A i, j \in 1..Len(term) : term[i] = term[j] => i = j

C20_Witness ==
    /\ bufmode = "full"
    /\ iter.loadfail = 1
    /\ pc[ShellPid] = "waitpid"
    /\ nreads = 2
    /\ term = <<EXECVP_ERR>>

====
